---- MODULE Spec2Model ----
(***************************************************************************)
(* Model of lsp-recorder: the Content-Length framing parser                *)
(* (ContentHeaderParser.Parse), the stream pump (intercept), the record    *)
(* consumer (record) and the orchestrator (Run) of src/recorder.go.        *)
(*                                                                         *)
(* A byte is a one-character string; the bytes with no printable form are  *)
(* named: "CR" (\r), "LF" (\n), "SP" (space), "NUL" (0).                   *)
(***************************************************************************)
EXTENDS Integers, Sequences, FiniteSets, TLC

(*------------------------------ bounds ----------------------------------*)

\* longest length field (bytes between the header literal and the first \r)
MaxDigits == 2

\* longest body of a message that arrives alone on a pump
MaxBody == 10

\* longest body of each of two messages that arrive one after the other
MaxPairBody == 2

\* most bytes the child writes to its stderr
MaxErrBytes == 4

\* largest exit code of the child
MaxExitCode == 1

(*--------------------------- program constants --------------------------*)

\* header := []byte("Content-Length: ")
HeaderLit ==
  <<"C", "o", "n", "t", "e", "n", "t", "-", "L", "e", "n", "g", "t", "h", ":", "SP">>

\* newlines := []byte("\n\r\n")
NewlinesLit == <<"LF", "CR", "LF">>

\* the full terminator of a header, "\r\n\r\n"
Terminator == <<"CR">> \o NewlinesLit

DigitBytes == {"0", "1", "2", "3", "4", "5", "6", "7", "8", "9"}

DigitVal(c) ==
  CASE c = "0" -> 0 [] c = "1" -> 1 [] c = "2" -> 2 [] c = "3" -> 3
    [] c = "4" -> 4 [] c = "5" -> 5 [] c = "6" -> 6 [] c = "7" -> 7
    [] c = "8" -> 8 [] c = "9" -> 9

(*------------------------------- errors ---------------------------------*)

\* a Go error value: its kind and the variable part of its text
NoError == [kind |-> "nil", text |-> <<>>]

\* io.EOF, the suspend signal of Parse
EOF == [kind |-> "EOF", text |-> <<>>]

\* fmt.Errorf("invalid message header: '%s'", buffer.String())
InvalidHeaderError(unread) == [kind |-> "invalid message header", text |-> unread]

\* errors.New("content length must be end with \\r\\n\\r\\n")
TerminatorError == [kind |-> "content length must be end with CRLFCRLF", text |-> <<>>]

\* the *strconv.NumError of strconv.Atoi: it quotes the string it was given
AtoiError(s) == [kind |-> "strconv.Atoi: invalid syntax", text |-> s]

\* errors.New("content length must be greater than 0")
NotPositiveError == [kind |-> "content length must be greater than 0", text |-> <<>>]

\* err.Error(): the text of an error, as a byte sequence
ErrorText(e) == <<e.kind>> \o e.text

IsHardError(e) == e.kind \notin {"nil", "EOF"}

(*------------------------------- parser ---------------------------------*)

\* the ContentHeaderParser struct after reset()
ResetParser == [state |-> "INITIAL", pos |-> 0, sb |-> <<>>]

\* what one Parse call leaves: the parser, the buffer, and the (int, error) it returns
ParseResult(p, b, n, e) == [parser |-> p, buf |-> b, n |-> n, err |-> e]

RECURSIVE AtoiDigits(_, _)
\* the digit loop of strconv.Atoi: n = n*10 + (ch - '0'), -1 for a byte that is no digit
AtoiDigits(s, acc) ==
  IF s = <<>> THEN acc
  ELSE IF Head(s) \notin DigitBytes THEN -1
  ELSE AtoiDigits(Tail(s), acc * 10 + DigitVal(Head(s)))

\* strconv.Atoi(s): an optional leading '+' or '-', then one or more decimal digits
Atoi(s) ==
  LET signed == s # <<>> /\ Head(s) \in {"+", "-"}
      body == IF signed THEN Tail(s) ELSE s
  IN IF body = <<>> \/ AtoiDigits(body, 0) < 0
     THEN [n |-> 0, err |-> AtoiError(s)]
     ELSE [n |-> IF Head(s) = "-" THEN 0 - AtoiDigits(body, 0) ELSE AtoiDigits(body, 0),
           err |-> NoError]

\* a plausible slip: n < 0 instead of n <= 0
ParseFinishAcceptsZero(s, b) ==
  LET a == Atoi(s)
  IN IF a.err # NoError THEN ParseResult(ResetParser, b, -1, a.err)
     ELSE IF a.n < 0 THEN ParseResult(ResetParser, b, -1, NotPositiveError)
     ELSE ParseResult(ResetParser, b, a.n, NoError)

\* the end of the IN_NEWLINES case: Atoi of the accumulator, reset, the n <= 0 test
ParseFinish(s, b) ==
  LET a == Atoi(s)
  IN IF a.err # NoError THEN ParseResult(ResetParser, b, -1, a.err)
     ELSE IF a.n <= 0 THEN ParseResult(ResetParser, b, -1, NotPositiveError)
     ELSE ParseResult(ResetParser, b, a.n, NoError)

RECURSIVE ParseNewlinesForgetsPos(_, _, _)
\* a plausible slip: a suspend inside the terminator loses the position reached
ParseNewlinesForgetsPos(pos, s, b) ==
  IF pos >= Len(NewlinesLit) THEN ParseFinish(s, b)
  ELSE IF b = <<>>
  THEN ParseResult([state |-> "IN_NEWLINES", pos |-> 0, sb |-> s], <<>>, -1, EOF)
  ELSE IF Head(b) # NewlinesLit[pos + 1]
  THEN ParseResult(ResetParser, Tail(b), -1, TerminatorError)
  ELSE ParseNewlinesForgetsPos(pos + 1, s, Tail(b))

RECURSIVE ParseNewlinesSuspendsOnMismatch(_, _, _)
\* a plausible slip: a wrong terminator byte is reported as a suspend
ParseNewlinesSuspendsOnMismatch(pos, s, b) ==
  IF pos >= Len(NewlinesLit) THEN ParseFinish(s, b)
  ELSE IF b = <<>>
  THEN ParseResult([state |-> "IN_NEWLINES", pos |-> pos, sb |-> s], <<>>, -1, EOF)
  ELSE IF Head(b) # NewlinesLit[pos + 1]
  THEN ParseResult([state |-> "IN_NEWLINES", pos |-> pos, sb |-> s], Tail(b), -1, EOF)
  ELSE ParseNewlinesSuspendsOnMismatch(pos + 1, s, Tail(b))

RECURSIVE ParseNewlines(_, _, _)
\* case IN_NEWLINES: match "\n\r\n" from p.pos on, then finish
ParseNewlines(pos, s, b) ==
  IF pos >= Len(NewlinesLit) THEN ParseFinish(s, b)
  ELSE IF b = <<>>
  THEN ParseResult([state |-> "IN_NEWLINES", pos |-> pos, sb |-> s], <<>>, -1, EOF)
  ELSE IF Head(b) # NewlinesLit[pos + 1]
  THEN ParseResult(ResetParser, Tail(b), -1, TerminatorError)
  ELSE ParseNewlines(pos + 1, s, Tail(b))

RECURSIVE ParseLengthKeepsCR(_, _)
\* a plausible slip: the '\r' that ends the length field is accumulated with it
ParseLengthKeepsCR(s, b) ==
  IF b = <<>>
  THEN ParseResult([state |-> "IN_LENGTH", pos |-> 0, sb |-> s], <<>>, -1, EOF)
  ELSE IF Head(b) = "CR" THEN ParseNewlines(0, Append(s, "CR"), Tail(b))
  ELSE ParseLengthKeepsCR(Append(s, Head(b)), Tail(b))

RECURSIVE ParseLength(_, _)
\* case IN_LENGTH: accumulate bytes up to the first '\r', then IN_NEWLINES with pos = 0
ParseLength(s, b) ==
  IF b = <<>>
  THEN ParseResult([state |-> "IN_LENGTH", pos |-> 0, sb |-> s], <<>>, -1, EOF)
  ELSE IF Head(b) = "CR" THEN ParseNewlines(0, s, Tail(b))
  ELSE ParseLength(Append(s, Head(b)), Tail(b))

\* the accumulator while the header literal is matched: the pos bytes matched so far
\* and one zero byte per suspend. The code writes them in the order read; nothing
\* reads the accumulator before line 145 or reset() clears it, so the model keeps
\* the matched bytes first and the zero bytes after them.
HeaderAccumulator(pos, nuls) == SubSeq(HeaderLit, 1, pos) \o [i \in 1..nuls |-> "NUL"]

RECURSIVE ParseHeaderSkipsToEnd(_, _, _)
\* a plausible slip: a byte that differs from the literal empties the buffer
ParseHeaderSkipsToEnd(pos, s, b) ==
  IF pos >= Len(HeaderLit) THEN ParseLength(<<>>, b)
  ELSE IF b = <<>>
  THEN ParseResult([state |-> "IN_HEADER", pos |-> pos,
                    sb |-> HeaderAccumulator(pos, Len(s) - pos + 1)], <<>>, -1, EOF)
  ELSE IF Head(b) # HeaderLit[pos + 1]
  THEN ParseResult(ResetParser, <<>>, -1, InvalidHeaderError(<<>>))
  ELSE ParseHeaderSkipsToEnd(pos + 1, HeaderAccumulator(pos + 1, Len(s) - pos), Tail(b))

RECURSIVE ParseHeader(_, _, _)
\* case INITIAL, IN_HEADER: match "Content-Length: " from p.pos on; every byte read,
\* and the zero byte of a read at the end of the buffer, is written to the accumulator
ParseHeader(pos, s, b) ==
  IF pos >= Len(HeaderLit) THEN ParseLength(<<>>, b)
  ELSE IF b = <<>>
  THEN ParseResult([state |-> "IN_HEADER", pos |-> pos,
                    sb |-> HeaderAccumulator(pos, Len(s) - pos + 1)], <<>>, -1, EOF)
  ELSE IF Head(b) # HeaderLit[pos + 1]
  THEN ParseResult(ResetParser, Tail(b), -1, InvalidHeaderError(Tail(b)))
  ELSE ParseHeader(pos + 1, HeaderAccumulator(pos + 1, Len(s) - pos), Tail(b))

\* func (p *ContentHeaderParser) Parse(buffer *bytes.Buffer) (int, error)
Parse(p, b) ==
  CASE p.state \in {"INITIAL", "IN_HEADER"} -> ParseHeader(p.pos, p.sb, b)
    [] p.state = "IN_LENGTH" -> ParseLength(p.sb, b)
    [] p.state = "IN_NEWLINES" -> ParseNewlines(p.pos, p.sb, b)
    [] OTHER -> ParseResult(ResetParser, b, -1, EOF)

(*-------------------------------- pump -----------------------------------*)

\* StreamType
Streams == {"STDIN", "STDOUT", "STDERR"}

\* the streams that carry framed messages: every stream but STDERR
Framed == {"STDIN", "STDOUT"}

\* make(chan LogData, 32)
ChanCap == 32

\* tmp := make([]byte, 1024): the most bytes one read returns
ReadCap == 1024

\* LogData without its timestamp (time.Now() is not modelled)
LogData(t, p, payload) == [streamType |-> t, payloadType |-> p, payload |-> payload]

\* what one classification leaves: the parser, the pending buffer, the awaited
\* length, and the records it sends (none or one)
Classified(p, b, req, out) == [parser |-> p, buf |-> b, req |-> req, out |-> out]

\* a plausible slip: the buffer is emptied once the payload is taken
ExtractDropsRest(t, p, b, req) ==
  IF Len(b) < req THEN Classified(p, b, req, <<>>)
  ELSE Classified(p, <<>>, -1, <<LogData(t, "JSON", SubSeq(b, 1, req))>>)

\* a plausible slip: the payload is taken without waiting for its last bytes
ExtractWithoutWaiting(t, p, b, req) ==
  IF Len(b) < req THEN Classified(p, <<>>, -1, <<LogData(t, "JSON", b)>>)
  ELSE Classified(p, SubSeq(b, req + 1, Len(b)), -1,
                  <<LogData(t, "JSON", SubSeq(b, 1, req))>>)

\* lines 236-248: with the awaited length known, wait for the bytes or take the payload
Extract(t, p, b, req) ==
  IF Len(b) < req THEN Classified(p, b, req, <<>>)
  ELSE Classified(p, SubSeq(b, req + 1, Len(b)), -1,
                  <<LogData(t, "JSON", SubSeq(b, 1, req))>>)

\* a plausible slip: after a record the rest of the buffer is classified at once
\* instead of waiting for the next read
ClassifyGoesOn(t, p, b, req, chunk) ==
  LET once(pp, bb, rr) ==
        IF rr < 0
        THEN LET r == Parse(pp, bb)
             IN IF r.err # NoError
                THEN Classified(r.parser, r.buf, rr,
                       IF r.err # EOF THEN <<LogData(t, "INVALID", ErrorText(r.err))>>
                       ELSE <<>>)
                ELSE Extract(t, r.parser, r.buf, r.n)
        ELSE Extract(t, pp, bb, rr)
      c == once(p, b \o chunk, req)
      d == once(c.parser, c.buf, c.req)
  IN IF c.out # <<>> /\ c.buf # <<>>
     THEN Classified(d.parser, d.buf, d.req, c.out \o d.out)
     ELSE c

\* a plausible slip: the parser is called in every iteration, a length awaited or not
ClassifyParsesAlways(t, p, b, req, chunk) ==
  LET r == Parse(p, b \o chunk)
  IN IF r.err # NoError
     THEN Classified(r.parser, r.buf, req,
            IF r.err # EOF THEN <<LogData(t, "INVALID", ErrorText(r.err))>>
            ELSE <<>>)
     ELSE Extract(t, r.parser, r.buf, r.n)

\* lines 219-248 of intercept for a framed stream: append the chunk to the pending
\* buffer, parse a header unless a length is awaited, then extract
Classify(t, p, b, req, chunk) ==
  LET all == b \o chunk
  IN IF req < 0
     THEN LET r == Parse(p, all)
          IN IF r.err # NoError
             THEN Classified(r.parser, r.buf, req,
                    IF r.err # EOF THEN <<LogData(t, "INVALID", ErrorText(r.err))>>
                    ELSE <<>>)
             ELSE Extract(t, r.parser, r.buf, r.n)
     ELSE Extract(t, p, all, req)

(*------------------------------- inputs ---------------------------------*)

DigitChars == <<"0", "1", "2", "3", "4", "5", "6", "7", "8", "9">>

RECURSIVE Decimal(_)
\* the decimal digits of n >= 0, as fmt's %d writes them
Decimal(n) == IF n < 10 THEN <<DigitChars[n + 1]>> ELSE Append(Decimal(n \div 10), DigitChars[(n % 10) + 1])

\* bytes a length field is drawn from: digits, the two signs, and a byte that is neither
LenAlphabet == {"0", "1", "2", "+", "-", "x"}

RECURSIVE SeqsUpTo(_, _)
\* all sequences over S of length <= n
SeqsUpTo(S, n) ==
  IF n = 0 THEN {<<>>}
  ELSE LET shorter == SeqsUpTo(S, n - 1)
       IN shorter \cup {Append(q, x) : q \in {r \in shorter : Len(r) = n - 1}, x \in S}

LenFields == SeqsUpTo(LenAlphabet, MaxDigits)

\* "Content-Length: " f "\r\n\r\n"
HeaderOf(f) == HeaderLit \o f \o Terminator

\* the header literal with its k-th byte replaced by c
BrokenLiteral(k, c) == [i \in 1..Len(HeaderLit) |-> IF i = k THEN c ELSE HeaderLit[i]]

\* the terminator with its k-th byte (2..4) replaced by c
BrokenTerminator(k, c) == [i \in 1..Len(Terminator) |-> IF i = k THEN c ELSE Terminator[i]]

\* "Content-Length:123\r\n\r\n": the header of the specification's example, its space missing
MissingSpace == SubSeq(HeaderLit, 1, 15) \o <<"1", "2", "3">> \o Terminator

\* the byte sequences the parser is fed in the parser checks
ParserInputs ==
  {HeaderOf(f) : f \in LenFields}
  \cup {HeaderOf(f) \o <<"a", "b">> : f \in {<<"1">>, <<"2">>}}
  \cup {BrokenLiteral(k, "x") \o <<"1">> \o Terminator : k \in 1..Len(HeaderLit)}
  \cup {HeaderLit \o <<"1">> \o BrokenTerminator(k, c) \o <<"a">> : k \in 2..4, c \in {"x", "CR", "LF"}}
  \cup {MissingSpace}

\* the bytes of message bodies: the first message of a stream, and the second
Body1 == <<"a", "b", "c", "d", "e", "f", "g", "h", "i", "j", "k", "l">>
Body2 == <<"p", "q", "r", "s">>

\* one framed message: "Content-Length: " <len> "\r\n\r\n" <body>
Frame(body) == HeaderOf(Decimal(Len(body))) \o body

RECURSIVE StreamOf(_)
\* the byte stream of a sequence of message bodies
StreamOf(ms) == IF ms = <<>> THEN <<>> ELSE Frame(Head(ms)) \o StreamOf(Tail(ms))

\* sequences of message bodies: one message alone, or two short ones
WellFormedMessages ==
  {<<SubSeq(Body1, 1, n)>> : n \in 1..MaxBody}
  \cup {<<SubSeq(Body1, 1, n), SubSeq(Body2, 1, m)>> : n \in 1..MaxPairBody, m \in 1..MaxPairBody}

\* streams that open with bytes that are no header
MalformedStreams ==
  {<<"x">> \o Frame(<<"a">>),
   HeaderOf(<<"0">>) \o Frame(<<"a">>),
   HeaderOf(<<"+", "1">>) \o <<"a">>}

\* the bytes of the child's stderr
ErrBytes == <<"e", "r", "o", "LF", "E", "R">>

\* the byte streams a pump's source delivers in the pump checks: framed messages
\* and malformed headers on stdin and stdout, unframed text on stderr
PumpInputs(t) ==
  IF t = "STDERR" THEN {SubSeq(ErrBytes, 1, MaxErrBytes)}
  ELSE {StreamOf(ms) : ms \in WellFormedMessages} \cup MalformedStreams

Min(a, b) == IF a <= b THEN a ELSE b

IsPrefix(p, q) == Len(p) <= Len(q) /\ SubSeq(q, 1, Len(p)) = p

(*------------------------------ variables -------------------------------*)

VARIABLES
  \* the parser driven alone, as TestParserSuccess drives it
  hd,        \* the bytes appended to the buffer so far
  parser,    \* the ContentHeaderParser
  tbuf,      \* the bytes.Buffer: its unread bytes
  retN,      \* the int the last Parse call returned
  retErr,    \* the error the last Parse call returned
  nCalls,    \* how many Parse calls were made
  nOk,       \* how many Parse calls returned a length
  nErr       \* how many Parse calls returned a hard error

hvars == <<hd, parser, tbuf, retN, retErr, nCalls, nOk, nErr>>

VARIABLES
  \* the stream pumps (intercept), one per stream
  scenario,            \* which byte streams the sources deliver, and where to:
                       \* "none", "pump", "brokenDst", "counted", "session", "brief"
  got,                 \* the bytes read from the source so far
  dst,                 \* the bytes written to the destination so far
  tmp,                 \* tmp[:n], the bytes of the read being processed
  pumpPc,              \* "idle" (not started), "check", "read", "classify", "stopped"
  chParser,            \* the pump's ContentHeaderParser
  buf,                 \* the pending-payload buffer: its unread bytes
  requiredPayloadLen,  \* the awaited length, -1 for none
  awaited              \* requiredPayloadLen when the last classification began

pvars == <<scenario, got, dst, tmp, pumpPc, chParser, buf, requiredPayloadLen, awaited>>

VARIABLES
  \* the record channel and its consumer (record)
  ch,        \* the records in the channel, oldest first
  sink,      \* the records handed to the logger, oldest first
  recordPc   \* "idle" (not started), "running", "stopped"

cvars == <<ch, sink, recordPc>>

VARIABLES
  \* the orchestrator (Run) and the child process
  runPc,        \* the position of Run
  ctxDone,      \* cancel() was called
  pipesClosed,  \* the three pipes of the child were closed
  child,        \* "none", "running", "exited"
  exitCode,     \* the exit code of the child, once it exited
  runErr        \* the error texts logError wrote to os.Stderr

rvars == <<runPc, ctxDone, pipesClosed, child, exitCode, runErr>>

VARIABLES
  \* main and what surrounds the process
  stdinOpen,   \* os.Stdin is open: a read of it waits for bytes
  signalled,   \* "no", or the state of the child when SIGINT or SIGTERM was delivered
  mainExit     \* the exit code of the process, -1 while it runs

mvars == <<stdinOpen, signalled, mainExit>>

VARIABLES
  \* what the checks keep count of, in the scenario "counted" only
  nReads,     \* per pump, the reads that returned one byte at least
  zeroRead    \* per pump, the last read returned no byte

gvars == <<nReads, zeroRead>>

vars == <<hvars, pvars, cvars, rvars, mvars, gvars>>

\* the state of the parts a specification leaves out

ParserTestIdle ==
  /\ hd = <<>>
  /\ parser = ResetParser
  /\ tbuf = <<>>
  /\ retN = -1
  /\ retErr = EOF
  /\ nCalls = 0
  /\ nOk = 0
  /\ nErr = 0

\* the locals of intercept at its first iteration, for pumps in the positions pc
\* whose sources deliver the streams of scenario sc
PumpsAt(pc, sc) ==
  /\ scenario = sc
  /\ got = [t \in Streams |-> <<>>]
  /\ dst = [t \in Streams |-> <<>>]
  /\ tmp = [t \in Streams |-> <<>>]
  /\ pumpPc = pc
  /\ chParser = [t \in Streams |-> ResetParser]
  /\ buf = [t \in Streams |-> <<>>]
  /\ requiredPayloadLen = [t \in Streams |-> -1]
  /\ awaited = [t \in Streams |-> -1]
  /\ nReads = [t \in Streams |-> 0]
  /\ zeroRead = [t \in Streams |-> FALSE]

PumpsIdle == PumpsAt([t \in Streams |-> "idle"], "none")

RunIdle ==
  /\ runPc = "off"
  /\ ctxDone = FALSE
  /\ pipesClosed = FALSE
  /\ child = "none"
  /\ exitCode = 0
  /\ runErr = <<>>

MainIdle ==
  /\ stdinOpen = FALSE
  /\ signalled = "no"
  /\ mainExit = -1

(*--------------------------- parser, driven alone -----------------------*)

InitParserTest ==
  /\ ParserTestIdle
  /\ PumpsIdle
  /\ ch = <<>> /\ sink = <<>> /\ recordPc = "idle"
  /\ RunIdle
  /\ MainIdle

\* the chunks the test may append next: the next bytes, one or more, of an input
\* that begins with the bytes appended so far
NextChunks ==
  UNION {{SubSeq(in, Len(hd) + 1, Len(hd) + k) : k \in 1..(Len(in) - Len(hd))} :
           in \in {i \in ParserInputs : IsPrefix(hd, i)}}

\* one turn of the test's loop: append a non-empty chunk, call Parse
TestFeed ==
  \E chunk \in NextChunks :
    LET r == Parse(parser, tbuf \o chunk)
    IN /\ hd' = hd \o chunk
       /\ parser' = r.parser
       /\ tbuf' = r.buf
       /\ retN' = r.n
       /\ retErr' = r.err
       /\ nCalls' = nCalls + 1
       /\ nOk' = IF r.err = NoError THEN nOk + 1 ELSE nOk
       /\ nErr' = IF IsHardError(r.err) THEN nErr + 1 ELSE nErr
       /\ UNCHANGED <<pvars, cvars, rvars, mvars, gvars>>

NextParserTest == TestFeed

SpecParser == InitParserTest /\ [][NextParserTest]_vars

(*------------------------------ stream pump -----------------------------*)

\* a channel without a capacity: a send never waits
HasRoomUnbounded(out) == TRUE

\* ch <- v: the send waits while the channel is full
HasRoom(out) == Len(ch) + Len(out) <= ChanCap

\* writer.Write(tmp[:n]): the bytes written. The write to the child's stdin pipe
\* writes nothing once Run has closed the pipe; a write to a destination that is
\* closed (scenario "brokenDst") writes nothing; the other writes to os.Stdout
\* and os.Stderr write every byte.
Written(t, chunk) ==
  IF (t = "STDIN" /\ pipesClosed) \/ scenario = "brokenDst" THEN <<>> ELSE chunk

\* the byte streams of a whole session: two bytes that are no header typed on
\* stdin, one such byte on the child's stdout, one byte on its stderr
SessionInputs(t) ==
  CASE t = "STDIN" -> {<<"x", "y">>}
    [] t = "STDOUT" -> {<<"z">>}
    [] t = "STDERR" -> {<<"e">>}

\* the byte streams of a brief session: one byte that is no header typed on
\* stdin, one byte on the child's stderr
BriefInputs(t) ==
  CASE t = "STDIN" -> {<<"x">>}
    [] t = "STDOUT" -> {<<>>}
    [] t = "STDERR" -> {<<"e">>}

\* the byte streams of the scenario in which the reads are counted: two messages of
\* one byte, a message of two bytes, a byte that is no header before a message;
\* the first bytes of the child's stderr
CountedInputs(t) ==
  IF t \in Framed
  THEN {StreamOf(<<<<"a">>, <<"p">>>>), Frame(<<"a", "b">>), <<"x">> \o Frame(<<"a">>)}
  ELSE {SubSeq(ErrBytes, 1, MaxErrBytes)}

\* the scenarios in which Run started the pumps
Sessions == {"session", "brief"}

\* a child that writes more bytes to its stderr than the channel has places
FloodInputs(t) ==
  IF t = "STDERR"
  THEN {[i \in 1..(ChanCap + 2) |-> IF i % 2 = 1 THEN "e" ELSE "f"]}
  ELSE {}

\* the byte streams the source of pump t may deliver
Inputs(t) ==
  CASE scenario \in {"pump", "brokenDst"} -> PumpInputs(t)
    [] scenario = "counted" -> CountedInputs(t)
    [] scenario = "session" -> SessionInputs(t)
    [] scenario = "brief" -> BriefInputs(t)
    [] scenario = "flood" -> FloodInputs(t)
    [] OTHER -> {}

\* reader.Read(tmp) may return without a byte (n = 0): a source that is at its
\* end or closed returns at once; os.Stdin while open, and a pipe of the child
\* while open with the child not exited, make the read wait
ReadsNothing(t) ==
  IF scenario \in Sessions
  THEN IF t = "STDIN" THEN ~stdinOpen ELSE pipesClosed \/ child = "exited"
  ELSE TRUE

\* the most bytes one read returns: the size of tmp; the flooding child writes
\* its bytes one at a time and each read returns the one byte that is there
MaxChunk == IF scenario = "flood" THEN 1 ELSE ReadCap

\* reader.Read(tmp): the chunks a read may return: no byte where ReadsNothing, or
\* the next 1..ReadCap bytes of a stream the source delivers; no byte from a pipe
\* of the child before the child runs or after the pipe is closed
ReadChunks(t) ==
  (IF ReadsNothing(t) THEN {<<>>} ELSE {}) \cup
  IF t # "STDIN" /\ (pipesClosed \/ (scenario \in Sessions /\ child = "none")) THEN {}
  ELSE UNION {{SubSeq(in, Len(got[t]) + 1, Len(got[t]) + k) :
                 k \in 1..Min(MaxChunk, Len(in) - Len(got[t]))} :
               in \in {i \in Inputs(t) : IsPrefix(got[t], i)}}

\* lines 196-200: the cancellation check at the top of the loop
PumpCheck(t) ==
  /\ pumpPc[t] = "check"
  /\ pumpPc' = [pumpPc EXCEPT ![t] = IF ctxDone THEN "stopped" ELSE "read"]
  /\ UNCHANGED <<scenario, got, dst, tmp, chParser, buf, requiredPayloadLen, awaited>>
  /\ UNCHANGED <<hvars, gvars, mvars, cvars, rvars>>

\* what the checks count of a read that returned chunk
CountRead(t, chunk) ==
  IF scenario = "counted"
  THEN /\ nReads' = [nReads EXCEPT ![t] = IF chunk = <<>> THEN @ ELSE @ + 1]
       /\ zeroRead' = [zeroRead EXCEPT ![t] = (chunk = <<>>)]
  ELSE UNCHANGED gvars

\* a plausible slip: a read that returns no byte is taken for the end of the stream
PumpReadEndsOnZero(t) ==
  /\ pumpPc[t] = "read"
  /\ \E chunk \in ReadChunks(t) :
       /\ IF chunk = <<>>
          THEN /\ pumpPc' = [pumpPc EXCEPT ![t] = "stopped"]
               /\ UNCHANGED <<got, dst, tmp>>
          ELSE /\ got' = [got EXCEPT ![t] = @ \o chunk]
               /\ dst' = [dst EXCEPT ![t] = @ \o Written(t, chunk)]
               /\ tmp' = [tmp EXCEPT ![t] = Written(t, chunk)]
               /\ pumpPc' = [pumpPc EXCEPT ![t] = "classify"]
       /\ CountRead(t, chunk)
  /\ UNCHANGED <<scenario, chParser, buf, requiredPayloadLen, awaited>>
  /\ UNCHANGED <<hvars, mvars, cvars, rvars>>

\* lines 201-206: read; an empty read goes round the loop; the bytes read are
\* written to the destination at once, and n becomes the number written
PumpRead(t) ==
  /\ pumpPc[t] = "read"
  /\ \E chunk \in ReadChunks(t) :
       /\ IF chunk = <<>>
          THEN /\ pumpPc' = [pumpPc EXCEPT ![t] = "check"]
               /\ UNCHANGED <<got, dst, tmp>>
          ELSE /\ got' = [got EXCEPT ![t] = @ \o chunk]
               /\ dst' = [dst EXCEPT ![t] = @ \o Written(t, chunk)]
               /\ tmp' = [tmp EXCEPT ![t] = Written(t, chunk)]
               /\ pumpPc' = [pumpPc EXCEPT ![t] = "classify"]
       /\ CountRead(t, chunk)
  /\ UNCHANGED <<scenario, chParser, buf, requiredPayloadLen, awaited>>
  /\ UNCHANGED <<hvars, mvars, cvars, rvars>>

\* a plausible slip: the pump returns after it sent an INVALID record
PumpClassifyReturnsOnError(t) ==
  /\ pumpPc[t] = "classify"
  /\ LET c == IF t = "STDERR"
              THEN Classified(chParser[t], buf[t], requiredPayloadLen[t],
                              <<LogData(t, "RAW", tmp[t])>>)
              ELSE Classify(t, chParser[t], buf[t], requiredPayloadLen[t], tmp[t])
     IN /\ HasRoom(c.out)
        /\ ch' = ch \o c.out
        /\ chParser' = [chParser EXCEPT ![t] = c.parser]
        /\ buf' = [buf EXCEPT ![t] = c.buf]
        /\ requiredPayloadLen' = [requiredPayloadLen EXCEPT ![t] = c.req]
        /\ pumpPc' = [pumpPc EXCEPT ![t] =
                        IF c.out # <<>> /\ c.out[1].payloadType = "INVALID"
                        THEN "stopped" ELSE "check"]
  /\ awaited' = [awaited EXCEPT ![t] = requiredPayloadLen[t]]
  /\ tmp' = [tmp EXCEPT ![t] = <<>>]
  /\ UNCHANGED <<scenario, got, dst, sink, recordPc>>
  /\ UNCHANGED <<hvars, gvars, mvars, rvars>>

\* lines 208-248: STDERR sends the bytes as one RAW record; a framed stream
\* classifies them; the iteration ends when the record, if any, is in the channel
PumpClassify(t) ==
  /\ pumpPc[t] = "classify"
  /\ LET c == IF t = "STDERR"
              THEN Classified(chParser[t], buf[t], requiredPayloadLen[t],
                              <<LogData(t, "RAW", tmp[t])>>)
              ELSE Classify(t, chParser[t], buf[t], requiredPayloadLen[t], tmp[t])
     IN /\ HasRoom(c.out)
        /\ ch' = ch \o c.out
        /\ chParser' = [chParser EXCEPT ![t] = c.parser]
        /\ buf' = [buf EXCEPT ![t] = c.buf]
        /\ requiredPayloadLen' = [requiredPayloadLen EXCEPT ![t] = c.req]
  /\ awaited' = [awaited EXCEPT ![t] = requiredPayloadLen[t]]
  /\ tmp' = [tmp EXCEPT ![t] = <<>>]
  /\ pumpPc' = [pumpPc EXCEPT ![t] = "check"]
  /\ UNCHANGED <<scenario, got, dst, sink, recordPc>>
  /\ UNCHANGED <<hvars, gvars, mvars, rvars>>

\* one pump alone, its source delivering a stream of PumpInputs; nothing drains
\* the channel and nothing cancels
InitPump ==
  /\ ParserTestIdle
  /\ \E t0 \in Streams :
       PumpsAt([t \in Streams |-> IF t = t0 THEN "check" ELSE "idle"], "pump")
  /\ ch = <<>> /\ sink = <<>> /\ recordPc = "idle"
  /\ RunIdle
  /\ MainIdle

NextPump ==
  \/ \E t \in Streams : PumpCheck(t)
  \/ \E t \in Streams : PumpRead(t)
  \/ \E t \in Streams : PumpClassify(t)

SpecPump == InitPump /\ [][NextPump]_vars

\* one pump alone, started with a destination that is closed: every Write
\* returns 0 and an error
InitPumpBrokenDst ==
  /\ ParserTestIdle
  /\ \E t0 \in Streams :
       PumpsAt([t \in Streams |-> IF t = t0 THEN "check" ELSE "idle"], "brokenDst")
  /\ ch = <<>> /\ sink = <<>> /\ recordPc = "idle"
  /\ RunIdle
  /\ MainIdle

SpecPumpBrokenDst == InitPumpBrokenDst /\ [][NextPump]_vars

\* one pump alone, its reads counted
InitPumpCounted ==
  /\ ParserTestIdle
  /\ \E t0 \in Streams :
       PumpsAt([t \in Streams |-> IF t = t0 THEN "check" ELSE "idle"], "counted")
  /\ ch = <<>> /\ sink = <<>> /\ recordPc = "idle"
  /\ RunIdle
  /\ MainIdle

SpecPumpCounted == InitPumpCounted /\ [][NextPump]_vars

(*------------------------- record, Run, the child -----------------------*)

\* sendMessage(STDERR, RAW_START, fmt.Sprintf("run: %s %s", name, args), ch)
StartRecord == LogData("STDERR", "RAW_START", <<"run: name args">>)

\* sendMessage(STDERR, RAW, formatEnv(), ch)
EnvRecord == LogData("STDERR", "RAW", <<"environment">>)

\* sendMessage(STDERR, RAW_END, fmt.Sprintf("command exited with: %d", code), ch)
EndRecord(code) == LogData("STDERR", "RAW_END", <<"command exited with: ">> \o Decimal(code))

\* logError: the record it sends
ErrorRecord(text) == LogData("STDERR", "RAW", <<text>>)

ExitCodes == 0..MaxExitCode

\* a plausible slip: the newest record of the channel is handed over first
RecordDeliverNewest ==
  /\ recordPc = "running"
  /\ ch # <<>>
  /\ sink' = Append(sink, ch[Len(ch)])
  /\ ch' = SubSeq(ch, 1, Len(ch) - 1)
  /\ UNCHANGED <<recordPc, hvars, gvars, mvars, pvars, rvars>>

\* a plausible slip: the record handed over stays in the channel
RecordDeliverKeeps ==
  /\ recordPc = "running"
  /\ ch # <<>>
  /\ sink' = Append(sink, Head(ch))
  /\ UNCHANGED <<ch, recordPc, hvars, gvars, mvars, pvars, rvars>>

\* record, case v := <-ch: the oldest record goes to the logger
RecordDeliver ==
  /\ recordPc = "running"
  /\ ch # <<>>
  /\ sink' = Append(sink, Head(ch))
  /\ ch' = Tail(ch)
  /\ UNCHANGED <<recordPc, hvars, gvars, mvars, pvars, rvars>>

\* record, case <-ctx.Done(): return (select may take it while records wait)
RecordStop ==
  /\ recordPc = "running"
  /\ ctxDone
  /\ recordPc' = "stopped"
  /\ UNCHANGED <<ch, sink, hvars, gvars, mvars, pvars, rvars>>

\* line 273
RunSendStart ==
  /\ runPc = "sendStart"
  /\ HasRoom(<<StartRecord>>)
  /\ ch' = Append(ch, StartRecord)
  /\ runPc' = "sendEnv"
  /\ UNCHANGED <<sink, recordPc, ctxDone, pipesClosed, child, exitCode, runErr, hvars, gvars, mvars, pvars>>

\* line 274
RunSendEnv ==
  /\ runPc = "sendEnv"
  /\ HasRoom(<<EnvRecord>>)
  /\ ch' = Append(ch, EnvRecord)
  /\ runPc' = "openPipes"
  /\ UNCHANGED <<sink, recordPc, ctxDone, pipesClosed, child, exitCode, runErr, hvars, gvars, mvars, pvars>>

\* a plausible slip: the failure is logged and Run goes on
RunOpenPipesGoesOn ==
  /\ runPc = "openPipes"
  /\ \E failed \in {"none", "stdin", "stdout", "stderr"} :
       IF failed = "none"
       THEN /\ runPc' = "startPumps"
            /\ UNCHANGED <<ch, runErr>>
       ELSE /\ HasRoom(<<ErrorRecord(failed)>>)
            /\ ch' = Append(ch, ErrorRecord("failed to open " \o failed \o " pipe"))
            /\ runErr' = Append(runErr, "failed to open " \o failed \o " pipe")
            /\ runPc' = "startPumps"
  /\ UNCHANGED <<sink, recordPc, ctxDone, pipesClosed, child, exitCode, hvars, gvars, mvars, pvars>>

\* lines 276-296: the three pipes; the first that fails is logged and Run returns,
\* the deferred Close of the pipes not yet registered
RunOpenPipes ==
  /\ runPc = "openPipes"
  /\ \E failed \in {"none", "stdin", "stdout", "stderr"} :
       IF failed = "none"
       THEN /\ runPc' = "startPumps"
            /\ UNCHANGED <<ch, runErr>>
       ELSE /\ HasRoom(<<ErrorRecord(failed)>>)
            /\ ch' = Append(ch, ErrorRecord("failed to open " \o failed \o " pipe"))
            /\ runErr' = Append(runErr, "failed to open " \o failed \o " pipe")
            /\ runPc' = "sleep"
  /\ UNCHANGED <<sink, recordPc, ctxDone, pipesClosed, child, exitCode, hvars, gvars, mvars, pvars>>

\* lines 297-299: go intercept(...) for STDIN, STDOUT, STDERR
RunStartPumps ==
  /\ runPc = "startPumps"
  /\ pumpPc' = [t \in Streams |-> "check"]
  /\ runPc' = "cmdStart"
  /\ UNCHANGED <<scenario, got, dst, tmp, chParser, buf, requiredPayloadLen, awaited>>
  /\ UNCHANGED <<ctxDone, pipesClosed, child, exitCode, runErr, hvars, gvars, mvars, cvars>>

\* lines 300-304: cmd.Start()
RunCmdStart ==
  /\ runPc = "cmdStart"
  /\ \E ok \in BOOLEAN :
       IF ok
       THEN /\ child' = "running"
            /\ runPc' = "wait"
            /\ UNCHANGED <<ch, runErr>>
       ELSE /\ HasRoom(<<ErrorRecord("failed to start command")>>)
            /\ ch' = Append(ch, ErrorRecord("failed to start command"))
            /\ runErr' = Append(runErr, "failed to start command")
            /\ runPc' = "closePipes"
            /\ UNCHANGED child
  /\ UNCHANGED <<sink, recordPc, ctxDone, pipesClosed, exitCode, hvars, gvars, mvars, pvars>>

\* the child process exits, with any exit code
ChildExit ==
  /\ child = "running"
  /\ child' = "exited"
  /\ exitCode' \in ExitCodes
  /\ UNCHANGED <<runPc, ctxDone, pipesClosed, runErr, hvars, gvars, mvars, pvars, cvars>>

\* lines 305-309: cmd.Wait() returns once the child has exited, the pipes closed
\* by Wait; an exit code other than 0 is an error, logged, and Run returns;
\* otherwise the RAW_END record is sent
RunCmdWait ==
  /\ runPc = "wait"
  /\ child = "exited"
  /\ pipesClosed' = TRUE
  /\ IF exitCode # 0
     THEN /\ HasRoom(<<ErrorRecord("failed to wait command")>>)
          /\ ch' = Append(ch, ErrorRecord("failed to wait command"))
          /\ runErr' = Append(runErr, "failed to wait command")
     ELSE /\ HasRoom(<<EndRecord(exitCode)>>)
          /\ ch' = Append(ch, EndRecord(exitCode))
          /\ UNCHANGED runErr
  /\ runPc' = "closePipes"
  /\ UNCHANGED <<sink, recordPc, ctxDone, child, exitCode, hvars, gvars, mvars, pvars>>

\* lines 292-296, deferred: the pipes are closed when Run returns
RunClosePipes ==
  /\ runPc = "closePipes"
  /\ pipesClosed' = TRUE
  /\ runPc' = "sleep"
  /\ UNCHANGED <<ctxDone, child, exitCode, runErr, hvars, gvars, mvars, pvars, cvars>>

\* lines 267-270, deferred: time.Sleep(100 * time.Millisecond), then cancel()
RunCancel ==
  /\ runPc = "sleep"
  /\ ctxDone' = TRUE
  /\ runPc' = "done"
  /\ UNCHANGED <<pipesClosed, child, exitCode, runErr, hvars, gvars, mvars, pvars, cvars>>

\* the other end of os.Stdin is closed: the reads of it return at once from now on
StdinClose ==
  /\ stdinOpen
  /\ mainExit = -1
  /\ stdinOpen' = FALSE
  /\ UNCHANGED <<signalled, mainExit, hvars, gvars, pvars, cvars, rvars>>

\* a goroutine when the process exits
Killed(pc) == IF pc \in {"idle", "stopped"} THEN pc ELSE "killed"

\* src/cmd/lsp-recorder/main.go, lines 67-68: Run has returned, main returns; the
\* process exits with code 0 and its goroutines end where they are
MainReturn ==
  /\ runPc = "done"
  /\ runPc' = "exited"
  /\ mainExit' = 0
  /\ pumpPc' = [t \in Streams |-> Killed(pumpPc[t])]
  /\ recordPc' = Killed(recordPc)
  /\ UNCHANGED <<scenario, got, dst, tmp, chParser, buf, requiredPayloadLen, awaited>>
  /\ UNCHANGED <<ch, sink, ctxDone, pipesClosed, child, exitCode, runErr>>
  /\ UNCHANGED <<stdinOpen, signalled, hvars, gvars>>

\* Run after lines 265-271: the channel made, the consumer started; the sources
\* deliver the streams of scenario sc
InitRun(sc) ==
  /\ ParserTestIdle
  /\ PumpsAt([t \in Streams |-> "idle"], sc)
  /\ ch = <<>> /\ sink = <<>> /\ recordPc = "running"
  /\ runPc = "sendStart"
  /\ ctxDone = FALSE
  /\ pipesClosed = FALSE
  /\ child = "none"
  /\ exitCode = 0
  /\ runErr = <<>>
  /\ stdinOpen = TRUE
  /\ signalled = "no"
  /\ mainExit = -1

Init == InitRun("session")

\* Run, the consumer and the pumps it starts, the child
NextRun ==
  \/ RunSendStart
  \/ RunSendEnv
  \/ RunOpenPipes
  \/ RunStartPumps
  \/ RunCmdStart
  \/ ChildExit
  \/ RunCmdWait
  \/ RunClosePipes
  \/ RunCancel
  \/ RecordDeliver
  \/ RecordStop
  \/ \E t \in Streams : PumpCheck(t)
  \/ \E t \in Streams : PumpRead(t)
  \/ \E t \in Streams : PumpClassify(t)
  \/ StdinClose

Next ==
  \/ NextRun
  \/ MainReturn

\* a whole session
Spec == Init /\ [][Next]_vars

InitBrief == InitRun("brief")

\* the scheduler lets every goroutine that can take a step take one: Run, the
\* consumer and each pump; the child exits; nothing obliges the other end of
\* os.Stdin to be closed
FairRun ==
  /\ WF_vars(RunSendStart \/ RunSendEnv \/ RunOpenPipes \/ RunStartPumps \/ RunCmdStart
               \/ RunCmdWait \/ RunClosePipes \/ RunCancel)
  /\ WF_vars(ChildExit)
  /\ WF_vars(RecordDeliver \/ RecordStop)
  /\ \A t \in Streams : WF_vars(PumpCheck(t) \/ PumpRead(t) \/ PumpClassify(t))

\* Run called by a caller that goes on running, a brief session
SpecRunFair == InitBrief /\ [][NextRun]_vars /\ FairRun

(*------------------ one pump and the recording goroutine ------------------*)

\* the stderr pump and record running, the context not cancelled: the pump
\* sends more records than the channel holds while record takes them out
InitFlood ==
  /\ ParserTestIdle
  /\ PumpsAt([t \in Streams |-> IF t = "STDERR" THEN "check" ELSE "idle"], "flood")
  /\ ch = <<>> /\ sink = <<>> /\ recordPc = "running"
  /\ RunIdle
  /\ MainIdle

NextFlood ==
  \/ NextPump
  \/ RecordDeliver

SpecFlood == InitFlood /\ [][NextFlood]_vars

(*---------- stream pump, the revision that forwards after classifying ------*)

\* src/unnamed/part_001, lines 503-507: read; an empty read goes round the loop;
\* nothing is written yet
PumpReadOnly(t) ==
  /\ pumpPc[t] = "read"
  /\ \E chunk \in ReadChunks(t) :
       /\ IF chunk = <<>>
          THEN /\ pumpPc' = [pumpPc EXCEPT ![t] = "check"]
               /\ UNCHANGED <<got, tmp>>
          ELSE /\ got' = [got EXCEPT ![t] = @ \o chunk]
               /\ tmp' = [tmp EXCEPT ![t] = chunk]
               /\ pumpPc' = [pumpPc EXCEPT ![t] = "classify"]
       /\ CountRead(t, chunk)
  /\ UNCHANGED <<scenario, dst, chParser, buf, requiredPayloadLen, awaited>>
  /\ UNCHANGED <<hvars, mvars, cvars, rvars>>

\* the bytes that revision writes once the classification sent its record: the
\* chunk after a RAW or INVALID record, "Content-Length: %d\r\n\r\n" and the
\* payload after a JSON record, nothing when no record was sent
Forwarded(chunk, out) ==
  IF out = <<>> THEN <<>>
  ELSE IF out[1].payloadType = "JSON" THEN Frame(out[1].payload)
  ELSE chunk

\* src/unnamed/part_001, lines 509-554: classify as above, send the record, then write
PumpClassifyThenWrite(t) ==
  /\ pumpPc[t] = "classify"
  /\ LET c == IF t = "STDERR"
              THEN Classified(chParser[t], buf[t], requiredPayloadLen[t],
                              <<LogData(t, "RAW", tmp[t])>>)
              ELSE Classify(t, chParser[t], buf[t], requiredPayloadLen[t], tmp[t])
     IN /\ HasRoom(c.out)
        /\ ch' = ch \o c.out
        /\ dst' = [dst EXCEPT ![t] = @ \o Written(t, Forwarded(tmp[t], c.out))]
        /\ chParser' = [chParser EXCEPT ![t] = c.parser]
        /\ buf' = [buf EXCEPT ![t] = c.buf]
        /\ requiredPayloadLen' = [requiredPayloadLen EXCEPT ![t] = c.req]
  /\ awaited' = [awaited EXCEPT ![t] = requiredPayloadLen[t]]
  /\ tmp' = [tmp EXCEPT ![t] = <<>>]
  /\ pumpPc' = [pumpPc EXCEPT ![t] = "check"]
  /\ UNCHANGED <<scenario, got, sink, recordPc>>
  /\ UNCHANGED <<hvars, gvars, mvars, rvars>>

NextPumpForwarding ==
  \/ \E t \in Streams : PumpCheck(t)
  \/ \E t \in Streams : PumpReadOnly(t)
  \/ \E t \in Streams : PumpClassifyThenWrite(t)

\* one pump of that revision alone
SpecPumpForwarding == InitPump /\ [][NextPumpForwarding]_vars

(*------- Run of the revision that takes SIGINT and SIGTERM as cancellation ------*)

\* src/unnamed/part_001, line 396: logError hands the error to the logger itself,
\* as a record of payload type "end"
LoggedError(text) == LogData("STDERR", "RAW_END", <<text>>)

\* src/unnamed/part_001, line 571: signal.NotifyContext: the first SIGINT or
\* SIGTERM, until stop() is called, closes ctx.Done()
Interrupt ==
  /\ signalled = "no"
  /\ runPc \notin {"done", "exited"}
  /\ signalled' = child
  /\ ctxDone' = TRUE
  /\ UNCHANGED <<runPc, pipesClosed, child, exitCode, runErr>>
  /\ UNCHANGED <<stdinOpen, mainExit, hvars, gvars, pvars, cvars>>

\* src/unnamed/part_001, lines 581-601
RunOpenPipesLogged ==
  /\ runPc = "openPipes"
  /\ \E failed \in {"none", "stdin", "stdout", "stderr"} :
       IF failed = "none"
       THEN /\ runPc' = "startPumps"
            /\ UNCHANGED <<sink, runErr>>
       ELSE /\ sink' = Append(sink, LoggedError("failed to open " \o failed \o " pipe"))
            /\ runErr' = Append(runErr, "failed to open " \o failed \o " pipe")
            /\ runPc' = "sleep"
  /\ UNCHANGED <<ch, recordPc, ctxDone, pipesClosed, child, exitCode, hvars, gvars, mvars, pvars>>

\* src/unnamed/part_001, lines 605-609
RunCmdStartLogged ==
  /\ runPc = "cmdStart"
  /\ \E ok \in BOOLEAN :
       IF ok
       THEN /\ child' = "running"
            /\ runPc' = "wait"
            /\ UNCHANGED <<sink, runErr>>
       ELSE /\ sink' = Append(sink, LoggedError("failed to start command"))
            /\ runErr' = Append(runErr, "failed to start command")
            /\ runPc' = "closePipes"
            /\ UNCHANGED child
  /\ UNCHANGED <<ch, recordPc, ctxDone, pipesClosed, exitCode, hvars, gvars, mvars, pvars>>

\* src/unnamed/part_001, lines 610-614
RunCmdWaitLogged ==
  /\ runPc = "wait"
  /\ child = "exited"
  /\ pipesClosed' = TRUE
  /\ IF exitCode # 0
     THEN /\ sink' = Append(sink, LoggedError("failed to wait command"))
          /\ runErr' = Append(runErr, "failed to wait command")
          /\ UNCHANGED ch
     ELSE /\ HasRoom(<<EndRecord(exitCode)>>)
          /\ ch' = Append(ch, EndRecord(exitCode))
          /\ UNCHANGED <<sink, runErr>>
  /\ runPc' = "closePipes"
  /\ UNCHANGED <<recordPc, ctxDone, child, exitCode, hvars, gvars, mvars, pvars>>

NextInterrupt ==
  \/ RunSendStart
  \/ RunSendEnv
  \/ RunOpenPipesLogged
  \/ RunStartPumps
  \/ RunCmdStartLogged
  \/ ChildExit
  \/ RunCmdWaitLogged
  \/ RunClosePipes
  \/ RunCancel
  \/ RecordDeliver
  \/ RecordStop
  \/ \E t \in Streams : PumpCheck(t)
  \/ \E t \in Streams : PumpReadOnly(t)
  \/ \E t \in Streams : PumpClassifyThenWrite(t)
  \/ StdinClose
  \/ Interrupt

InitInterrupt == InitRun("brief")

\* a whole session of that revision
SpecInterrupt == InitInterrupt /\ [][NextInterrupt]_vars

(*----------------------- claims about the parser ------------------------*)

\* the bytes the parser has read from the buffer since the first call
Consumed == SubSeq(hd, 1, Len(hd) - Len(tbuf))

\* the largest value a length field of MaxDigits digits can declare
MaxLengthValue == (10 ^ MaxDigits) - 1

\* the well-formed headers declaring n > 0: its decimal digits, with or without a leading zero
ValidHeadersOf(n) ==
  {HeaderOf(f) : f \in {g \in {Decimal(n), <<"0">> \o Decimal(n)} : Len(g) <= MaxDigits}}

\* every well-formed header h of the bounds, with the length n > 0 it declares
ValidHeaders ==
  UNION {{[n |-> n, h |-> h] : h \in ValidHeadersOf(n)} : n \in 1..MaxLengthValue}

\* C1: parser resumability. While the bytes appended so far are a proper prefix of a
\* well-formed header declaring n > 0, every Parse call has returned the suspend
\* result (-1, io.EOF); the call after the last byte returns (n, nil), and that is
\* the only call that returned a length.
C1_ParserResumability ==
  \A v \in ValidHeaders :
    (hd # <<>> /\ IsPrefix(hd, v.h)) =>
      IF hd = v.h
      THEN retN = v.n /\ retErr = NoError /\ nOk = 1 /\ nErr = 0
      ELSE retN = -1 /\ retErr = EOF /\ nOk = 0 /\ nErr = 0

\* C1 witness: the header declaring 12 fed one byte at a time, 12 returned on the last call
C1_Witness ==
  /\ hd = HeaderOf(<<"1", "2">>)
  /\ nCalls = Len(hd)
  /\ retN = 12
  /\ retErr = NoError

\* the bytes read so far end in the first byte that differs from the header literal
LiteralMismatch(c) ==
  /\ Len(c) \in 1..Len(HeaderLit)
  /\ IsPrefix(SubSeq(c, 1, Len(c) - 1), HeaderLit)
  /\ c[Len(c)] # HeaderLit[Len(c)]

\* the bytes read so far are the literal, a length field, '\r', and end in the first
\* byte that differs from "\n\r\n"
TerminatorMismatch(c) ==
  /\ Len(c) > Len(HeaderLit) + 1
  /\ IsPrefix(HeaderLit, c)
  /\ \E j \in (Len(HeaderLit) + 1)..(Len(c) - 1) :
       /\ c[j] = "CR"
       /\ \A i \in (Len(HeaderLit) + 1)..(j - 1) : c[i] # "CR"
       /\ Len(c) - j \in 1..Len(NewlinesLit)
       /\ IsPrefix(SubSeq(c, j + 1, Len(c) - 1), NewlinesLit)
       /\ c[Len(c)] # NewlinesLit[Len(c) - j]

\* C5: a header mismatch is a hard error. When the last byte Parse read differs from
\* the byte the literal "Content-Length: " or the terminator "\n\r\n" expects there,
\* the call returned -1 with an error other than io.EOF and left the parser in
\* INITIAL with pos = 0 and an empty accumulator.
C5_MismatchIsHardError ==
  (LiteralMismatch(Consumed) \/ TerminatorMismatch(Consumed)) =>
    /\ retN = -1
    /\ IsHardError(retErr)
    /\ parser = ResetParser

\* C5 witness: a wrong terminator byte read in a resumed call (the parser had
\* suspended inside the terminator), reported as the terminator error
C5_Witness ==
  /\ TerminatorMismatch(Consumed)
  /\ nCalls > 1
  /\ retErr = TerminatorError
  /\ parser = ResetParser

RECURSIVE IsInfix(_, _)
\* p occurs in q as a contiguous run
IsInfix(p, q) == IsPrefix(p, q) \/ (q # <<>> /\ IsInfix(p, Tail(q)))

\* C6: the error of a header-literal mismatch references the bytes consumed in the
\* failed attempt: its text contains the matched prefix and the offending byte.
C6_ErrorNamesConsumedBytes ==
  LiteralMismatch(Consumed) => IsInfix(Consumed, ErrorText(retErr))

\* C7: a non-positive length is rejected. Every Parse call that returns no error
\* returns an integer > 0, and a well-formed header declaring 0 ends in a hard error.
C7_NonPositiveRejected ==
  /\ retErr = NoError => retN > 0
  /\ \A z \in 1..MaxDigits :
       hd = HeaderOf([i \in 1..z |-> "0"]) =>
         retN = -1 /\ IsHardError(retErr) /\ nOk = 0

\* C7 witness: "Content-Length: 0\r\n\r\n" was parsed and refused
C7_Witness ==
  /\ hd = HeaderOf(<<"0">>)
  /\ retErr = NotPositiveError
  /\ retN = -1

\* C8: the length grammar. The first length Parse returns comes from a length field
\* (the bytes between "Content-Length: " and the first '\r') of one or more ASCII
\* decimal digits: no sign, no other byte.
C8_LengthFieldIsDigits ==
  (retErr = NoError /\ nOk = 1 /\ nErr = 0) =>
    LET field == SubSeq(Consumed, Len(HeaderLit) + 1, Len(Consumed) - Len(Terminator))
    IN field # <<>> /\ \A i \in 1..Len(field) : field[i] \in DigitBytes

\* the buffer the Parse call of a step of the test was given: the bytes unread
\* before it and the chunk appended
GivenToParse == tbuf \o SubSeq(hd', Len(hd) + 1, Len(hd'))

\* C21: a hard parse error discards only the bytes consumed by the failed attempt.
\* A Parse call that returns a hard error has read one byte at least; the error
\* shows at the last byte it read and at no byte before (given only the bytes
\* before, the call suspends), whatever follows; the bytes after that byte are
\* left in the buffer, all of them, in order, and the parser is reset, so that
\* the next call matches a header from the first of them.
C21_HardErrorStep ==
  (nCalls' = nCalls + 1 /\ IsHardError(retErr')) =>
    LET all == GivenToParse
        used == Len(all) - Len(tbuf')
    IN /\ used >= 1
       /\ tbuf' = SubSeq(all, used + 1, Len(all))
       /\ parser' = ResetParser
       /\ \A k \in 0..(used - 1) : Parse(parser, SubSeq(all, 1, k)).err = EOF
       /\ IsHardError(Parse(parser, SubSeq(all, 1, used)).err)

C21_HardErrorDiscardsConsumed == [][C21_HardErrorStep]_vars

\* C21 witness: a call that resumed a suspended parser met a wrong byte in the
\* header literal with bytes after it in the buffer; they are left there
C21_Witness ==
  /\ nCalls > 1
  /\ nErr = 1
  /\ retErr.kind = "invalid message header"
  /\ tbuf # <<>>
  /\ LiteralMismatch(Consumed)
  /\ Len(Consumed) > 1
  /\ parser = ResetParser

\* C22: parser state consistency. After a call that returned a length or a hard
\* error the parser is in INITIAL with pos = 0 and an empty accumulator. After a
\* call that suspended, the buffer is read to its end and the parser is in
\* IN_HEADER with pos < 16, in IN_LENGTH with pos = 0, or in IN_NEWLINES with
\* pos < 3; and in the first attempt the bytes fed so far are, each once and in
\* order, the pos matched bytes of the literal, or the literal and the length
\* field accumulated, or those, the '\r' and the pos matched terminator bytes.
C22_ParserStateConsistent ==
  nCalls > 0 =>
    /\ retErr # EOF => parser = ResetParser
    /\ retErr = EOF =>
         /\ retN = -1
         /\ tbuf = <<>>
         /\ parser.state \in {"IN_HEADER", "IN_LENGTH", "IN_NEWLINES"}
         /\ parser.state = "IN_HEADER" => parser.pos \in 0..(Len(HeaderLit) - 1)
         /\ parser.state = "IN_LENGTH" => parser.pos = 0
         /\ parser.state = "IN_NEWLINES" => parser.pos \in 0..(Len(NewlinesLit) - 1)
         /\ parser.state # "IN_HEADER" => \A i \in 1..Len(parser.sb) : parser.sb[i] # "CR"
         /\ (nOk = 0 /\ nErr = 0) =>
              hd = CASE parser.state = "IN_HEADER" -> SubSeq(HeaderLit, 1, parser.pos)
                     [] parser.state = "IN_LENGTH" -> HeaderLit \o parser.sb
                     [] parser.state = "IN_NEWLINES" ->
                          HeaderLit \o parser.sb \o <<"CR">>
                            \o SubSeq(NewlinesLit, 1, parser.pos)

\* C22 witness: the parser suspended after the second byte of the terminator's
\* "\n\r\n", in a resumed call, the length field 12 accumulated
C22_Witness ==
  /\ nCalls > 2
  /\ retErr = EOF
  /\ parser = [state |-> "IN_NEWLINES", pos |-> 2, sb |-> <<"1", "2">>]
  /\ hd = HeaderLit \o <<"1", "2", "CR", "LF", "CR">>

(*------------------------ claims about the pump -------------------------*)

RECURSIVE Payloads(_)

\* the records of the channel that pump t sent, oldest first
RECURSIVE RecordsOf(_, _)
RecordsOf(q, t) ==
  IF q = <<>> THEN <<>>
  ELSE IF Head(q).streamType = t
       THEN <<Head(q)>> \o RecordsOf(Tail(q), t)
       ELSE RecordsOf(Tail(q), t)

\* the pump is between two iterations: every read it made is processed
BetweenIterations(t) == pumpPc[t] \in {"check", "read"}

\* C2: every message is recorded. Once a framed pump has processed the last read
\* of a stream of well-formed framed messages, it has sent exactly one JSON record
\* per message, in message order, each with the message's body as payload, and the
\* pending buffer holds no message.
C2_EveryMessageRecorded ==
  \A t \in Framed : \A ms \in WellFormedMessages :
    (BetweenIterations(t) /\ got[t] = StreamOf(ms)) =>
      /\ RecordsOf(ch, t) = [i \in 1..Len(ms) |-> LogData(t, "JSON", ms[i])]
      /\ buf[t] = <<>>
      /\ requiredPayloadLen[t] = -1

\* C3: passthrough fidelity. Between two iterations of a pump, the bytes written to
\* its destination are the bytes read from its source, in the same order.
C3_PassthroughFidelity ==
  \A t \in Streams : BetweenIterations(t) => dst[t] = got[t]

\* h is a header: the literal, a length field with no '\r', the terminator
IsHeader(h) ==
  /\ Len(h) >= Len(HeaderLit) + Len(Terminator)
  /\ IsPrefix(HeaderLit, h)
  /\ SubSeq(h, Len(h) - Len(Terminator) + 1, Len(h)) = Terminator
  /\ \A i \in (Len(HeaderLit) + 1)..(Len(h) - Len(Terminator)) : h[i] # "CR"

\* C4: message reassembly across reads. In an iteration of a framed pump that began
\* with a length N awaited (the header was parsed in an earlier iteration), the pump
\* sends nothing and keeps every byte while the buffer holds fewer than N bytes; in
\* the iteration where it first holds N, it sends one JSON record whose payload is
\* the first N bytes after the header, and leaves the bytes beyond the N-th, in
\* order, as the pending buffer for the next header parse. The bytes before the
\* pending ones are the header, for the first message of a stream.
C4_ReassemblyStep ==
  \A t \in Framed :
    (pumpPc[t] = "classify" /\ pumpPc'[t] = "check" /\ requiredPayloadLen[t] > 0) =>
      LET N == requiredPayloadLen[t]
          all == buf[t] \o tmp[t]
          before == Len(got[t]) - Len(all)
      IN /\ ch = <<>> =>
              /\ before >= 0
              /\ IsHeader(SubSeq(got[t], 1, before))
              /\ SubSeq(got[t], before + 1, Len(got[t])) = all
         /\ IF Len(all) < N
            THEN ch' = ch /\ buf'[t] = all /\ requiredPayloadLen'[t] = N
            ELSE /\ ch' = Append(ch, LogData(t, "JSON", SubSeq(all, 1, N)))
                 /\ buf'[t] = SubSeq(all, N + 1, Len(all))
                 /\ requiredPayloadLen'[t] = -1
                 /\ chParser'[t] = ResetParser

C4_Reassembly == [][C4_ReassemblyStep]_vars

\* C4 witness: a body of 2 bytes whose header was parsed in an earlier iteration is
\* recorded, and the bytes read after it wait in the pending buffer
C4_Witness ==
  \E t \in Framed :
    /\ awaited[t] = 2
    /\ BetweenIterations(t)
    /\ ch = <<LogData(t, "JSON", <<"a", "b">>)>>
    /\ buf[t] # <<>>
    /\ IsPrefix(buf[t], Frame(<<"p">>))
    /\ requiredPayloadLen[t] = -1

(*----------------------- claims about the session -----------------------*)


\* every record sent so far, oldest first: those handed to the logger, then those
\* still in the channel
Enqueued == sink \o ch

\* Run has returned from its body (its deferred calls run or have run)
RunReturned == runPc \in {"closePipes", "sleep", "done", "exited"}

\* C9: session end on process completion. Once the child that was started has
\* exited, with whatever exit code, and Run has returned from cmd.Wait, a RAW_END
\* record carrying the exit code has been sent.
C9_EndRecordOnCompletion ==
  (child = "exited" /\ RunReturned) =>
    \E i \in 1..Len(Enqueued) : Enqueued[i] = EndRecord(exitCode)

\* C10: session start first. The RAW_START record is sent before any pump is
\* started, it is the first record sent, and the first record handed to the sink.
C10_StartRecordFirst ==
  /\ (\E t \in Streams : pumpPc[t] # "idle") => Enqueued # <<>>
  /\ Enqueued # <<>> => Enqueued[1] = StartRecord
  /\ sink # <<>> => sink[1] = StartRecord
  /\ \A i \in 2..Len(sink) : sink[i] # StartRecord

\* C10 witness: the sink holds the start record first, then the environment record,
\* then a record of a pump
C10_Witness ==
  /\ Len(sink) >= 3
  /\ sink[1] = StartRecord
  /\ sink[2] = EnvRecord
  /\ \E i \in 3..Len(sink) : sink[i].payloadType = "INVALID"

\* the records Run itself sends or logs at its end
IsEndRecord(r) == r.streamType = "STDERR" /\ r.payloadType = "RAW_END"

\* C11: an interrupt leads to graceful draining. When SIGINT or SIGTERM arrived
\* while the child was running and Run has returned, a RAW_END record is in the
\* sink, and so are the two records Run enqueued first.
C11_InterruptDrains ==
  (signalled = "running" /\ runPc = "done") =>
    /\ \E i \in 1..Len(sink) : IsEndRecord(sink[i])
    /\ \A i \in 1..Len(ch) : ch[i] \notin {StartRecord, EnvRecord}

\* the texts of the errors Run logs
RunErrorTexts ==
  {"failed to open stdin pipe", "failed to open stdout pipe", "failed to open stderr pipe",
   "failed to start command", "failed to wait command"}

\* the records Run sends itself, all of them before its deferred cancel()
RunRecords ==
  {StartRecord, EnvRecord} \cup {EndRecord(c) : c \in ExitCodes}
    \cup {ErrorRecord(x) : x \in RunErrorTexts}

\* C12: flush before return. When Run has returned, no record that Run sent
\* before it cancelled is still in the channel: each was handed to the sink.
C12_FlushBeforeReturn ==
  runPc \in {"done", "exited"} => \A i \in 1..Len(ch) : ch[i] \notin RunRecords

\* C13: coordinated shutdown. Once the cancellation has fired and the pipes are
\* closed, the three pumps and the consumer all come to return.
C13_CoordinatedShutdown ==
  (ctxDone /\ pipesClosed) ~>
    ((\A t \in Streams : pumpPc[t] = "stopped") /\ recordPc = "stopped")

\* the records a step added to those enqueued so far
NewlyEnqueued == SubSeq(Enqueued', Len(Enqueued) + 1, Len(Enqueued'))

\* C14: sink ordering. The records enqueued so far only ever grow at the end;
\* the consumer moves exactly the oldest record of the channel to the end of the
\* sink, so the sink is always the beginning of what was enqueued, in that
\* order, each record once; and the records of a framed stream are added only by
\* that stream's pump, at the end, when it classifies.
C14_SinkOrderStep ==
  /\ IsPrefix(Enqueued, Enqueued')
  /\ IsPrefix(sink, sink')
  /\ sink' # sink => (Enqueued' = Enqueued /\ Len(sink') = Len(sink) + 1)
  /\ \A i \in 1..Len(NewlyEnqueued) :
       LET t == NewlyEnqueued[i].streamType
       IN t \in Framed => (pumpPc[t] = "classify" /\ pumpPc'[t] = "check")

C14_SinkOrder == [][C14_SinkOrderStep]_vars

\* C14 witness: the sink holds records of Run and of two pumps, handed over while
\* the three pumps were running and another record was waiting in the channel
C14_Witness ==
  /\ \E i \in 1..Len(sink) : sink[i].streamType = "STDIN"
  /\ \E i \in 1..Len(sink) : sink[i].streamType = "STDOUT"
  /\ \E i \in 1..Len(sink) : sink[i] = EnvRecord
  /\ ch # <<>>
  /\ \A t \in Streams : pumpPc[t] \in {"check", "read", "classify"}

\* Run logged a failure to open a pipe or to start the command
SetupFailed ==
  \E i \in 1..Len(runErr) : runErr[i] \in RunErrorTexts \ {"failed to wait command"}

\* C15: exit code. When the process has exited, its exit code is the exit code of
\* the child if the child ran and exited, and is not 0 if the setup failed.
C15_ExitCodeMirrorsChild ==
  mainExit # -1 =>
    /\ child = "exited" => mainExit = exitCode
    /\ SetupFailed => mainExit # 0

\* the locals of pump u and the bytes it has read and written
PumpState(u) ==
  <<pumpPc[u], got[u], dst[u], tmp[u], chParser[u], buf[u], requiredPayloadLen[u]>>

\* pump t is about to classify bytes on which Parse returns a hard error
HardErrorPending(t) ==
  /\ t \in Framed
  /\ pumpPc[t] = "classify"
  /\ requiredPayloadLen[t] < 0
  /\ IsHardError(Parse(chParser[t], buf[t] \o tmp[t]).err)

\* C16: stream independence. The step in which a framed pump meets a hard parse
\* error (a step of the pump, not the exit of the process) enqueues one INVALID record of that stream, resets that pump's parser,
\* leaves that pump in its loop, and changes nothing of the two other pumps.
C16_StreamIndependenceStep ==
  \A t \in Framed :
    (HardErrorPending(t) /\ pumpPc'[t] # "classify" /\ mainExit' = mainExit) =>
      /\ pumpPc'[t] = "check"
      /\ chParser'[t] = ResetParser
      /\ requiredPayloadLen'[t] = -1
      /\ Len(NewlyEnqueued) = 1
      /\ NewlyEnqueued[1].streamType = t
      /\ NewlyEnqueued[1].payloadType = "INVALID"
      /\ \A u \in Streams \ {t} : PumpState(u)' = PumpState(u)

C16_StreamIndependence == [][C16_StreamIndependenceStep]_vars

\* C16 witness: after an INVALID record of stdout, the stderr pump sent its RAW
\* record and the stdin pump a record of its own
C16_Witness ==
  \E i, j, k \in 1..Len(Enqueued) :
    /\ i < j /\ j < k
    /\ Enqueued[i] = LogData("STDOUT", "INVALID", ErrorText(InvalidHeaderError(<<>>)))
    /\ Enqueued[j] = LogData("STDERR", "RAW", <<"e">>)
    /\ Enqueued[k].streamType = "STDIN"

\* the payloads of the records q, one after the other
Payloads(q) == IF q = <<>> THEN <<>> ELSE Head(q).payload \o Payloads(Tail(q))

\* C17: stderr is never framed. Between two iterations of the stderr pump, its
\* records are RAW records, one for each non-empty read, their payloads are the
\* bytes read, in order, and its parser and pending buffer were never touched.
C17_StderrRawPerRead ==
  (pumpPc["STDERR"] \in {"check", "read"}) =>
    LET q == RecordsOf(Enqueued, "STDERR")
    IN /\ \A i \in 1..Len(q) : q[i].payloadType = "RAW" /\ q[i].payload # <<>>
       /\ Payloads(q) = got["STDERR"]
       /\ chParser["STDERR"] = ResetParser
       /\ buf["STDERR"] = <<>>

\* streams of one malformed message, which Parse consumes with a hard error,
\* followed at once by the well-formed message of body "a"
ErrorThenMessage == {<<"x">> \o Frame(<<"a">>), HeaderOf(<<"0">>) \o Frame(<<"a">>)}

\* C18: framing errors are recoverable per message. Once a framed pump has
\* processed the last read of a malformed message followed by a well-formed one,
\* it has sent one INVALID record for the error and then the JSON record of the
\* message that begins at the first byte the failed parse did not consume.
C18_ErrorThenRecovery ==
  \A t \in Framed :
    (BetweenIterations(t) /\ got[t] \in ErrorThenMessage) =>
      LET q == RecordsOf(ch, t)
      IN /\ Len(q) = 2
         /\ q[1].payloadType = "INVALID"
         /\ q[2] = LogData(t, "JSON", <<"a">>)

\* the texts of the errors of lines 279, 284 and 289
OpenPipeErrors ==
  {"failed to open stdin pipe", "failed to open stdout pipe", "failed to open stderr pipe"}

\* C19: fatal pipe-setup failure. Once Run has logged a failure to open a pipe, it
\* has written that one error to its stderr and enqueued that one error record,
\* after its two opening records; it is on its way out; the child was not
\* started, no pump was started, and no second attempt was made.
C19_PipeFailureIsFatal ==
  (\E i \in 1..Len(runErr) : runErr[i] \in OpenPipeErrors) =>
    /\ Len(runErr) = 1
    /\ Enqueued = <<StartRecord, EnvRecord, ErrorRecord(runErr[1])>>
    /\ runPc \in {"sleep", "done", "exited"}
    /\ child = "none"
    /\ \A t \in Streams : pumpPc[t] = "idle"
    /\ ~pipesClosed

\* C19 witness: the stdout pipe failed to open, Run returned and the process
\* exited, the error record in the sink
C19_Witness ==
  /\ runErr = <<"failed to open stdout pipe">>
  /\ runPc = "exited"
  /\ sink = <<StartRecord, EnvRecord, ErrorRecord("failed to open stdout pipe")>>

\* C20: pending-buffer invariant. A step of a framed pump that enqueues a JSON
\* record enqueues that record alone; a length N > 0 is known then, awaited since
\* an earlier iteration or returned by the header parse of this one; the bytes
\* pending after the header are at least N; the payload is the first N of them,
\* and the rest stays, same bytes in the same order, as the pending buffer, with
\* no length awaited. With N known and fewer than N bytes pending nothing is sent.
C20_PendingBufferStep ==
  \A t \in Framed :
    (pumpPc[t] = "classify" /\ pumpPc'[t] = "check") =>
      LET all == buf[t] \o tmp[t]
          r == Parse(chParser[t], all)
          known == requiredPayloadLen[t] >= 0 \/ r.err = NoError
          N == IF requiredPayloadLen[t] >= 0 THEN requiredPayloadLen[t] ELSE r.n
          pending == IF requiredPayloadLen[t] >= 0 THEN all ELSE r.buf
          sent == \E i \in 1..Len(NewlyEnqueued) : NewlyEnqueued[i].payloadType = "JSON"
      IN /\ sent =>
              /\ known
              /\ N > 0
              /\ Len(pending) >= N
              /\ NewlyEnqueued = <<LogData(t, "JSON", SubSeq(pending, 1, N))>>
              /\ Len(NewlyEnqueued[1].payload) = N
              /\ buf'[t] = SubSeq(pending, N + 1, Len(pending))
              /\ requiredPayloadLen'[t] = -1
         /\ (known /\ Len(pending) < N) =>
              /\ NewlyEnqueued = <<>>
              /\ buf'[t] = pending
              /\ requiredPayloadLen'[t] = N

C20_PendingBuffer == [][C20_PendingBufferStep]_vars

\* C20 witness: a header and its body of one byte came in one read together with
\* the first bytes of the next message; the body is recorded and those bytes wait
C20_Witness ==
  \E t \in Framed :
    /\ awaited[t] = -1
    /\ BetweenIterations(t)
    /\ ch = <<LogData(t, "JSON", <<"a">>)>>
    /\ buf[t] # <<>>
    /\ IsPrefix(buf[t], Frame(<<"p">>))
    /\ requiredPayloadLen[t] = -1

\* C23: a zero-byte read is a no-op. The step in which a pump's read returns no
\* byte writes nothing, enqueues nothing, leaves the pending buffer, the awaited
\* length and the parser as they were, and takes the pump to the top of its
\* loop: the pump does not return.
C23_ZeroReadStep ==
  \A t \in Streams :
    (pumpPc[t] = "read" /\ pumpPc'[t] # "read" /\ zeroRead'[t]) =>
      /\ pumpPc'[t] = "check"
      /\ got'[t] = got[t]
      /\ dst' = dst
      /\ Enqueued' = Enqueued
      /\ buf' = buf
      /\ requiredPayloadLen' = requiredPayloadLen
      /\ chParser' = chParser

C23_ZeroReadIsNoOp == [][C23_ZeroReadStep]_vars

\* C23 witness: a read returned no byte while the first byte of a body of two was
\* pending; the pump is at the top of its loop, the byte and the length kept
C23_Witness ==
  \E t \in Framed :
    /\ zeroRead[t]
    /\ pumpPc[t] = "check"
    /\ requiredPayloadLen[t] = 2
    /\ buf[t] = <<"a">>
    /\ dst[t] = got[t]
    /\ ch = <<>>

\* between two iterations of the stderr pump, the records sent so far, delivered
\* or waiting, are one per byte read, in the order read
C24_NothingDropped ==
  BetweenIterations("STDERR") =>
    /\ Payloads(RecordsOf(Enqueued, "STDERR")) = got["STDERR"]
    /\ Len(Enqueued) = Len(got["STDERR"])

\* C24: the channel never holds more than ChanCap records; a send to the full
\* channel waits for record to take a record out; while record runs nothing is
\* dropped: the records sent, in order, are the delivered ones followed by those
\* in the channel.
C24_BoundedMailbox ==
  /\ Len(ch) <= ChanCap
  /\ recordPc = "running" => C24_NothingDropped

C24_Witness ==
  /\ scenario = "flood"
  /\ Len(ch) = ChanCap
  /\ Len(sink) = 1
  /\ pumpPc["STDERR"] = "check"
  /\ Len(got["STDERR"]) = ChanCap + 1

\* C25: forwarding precedes classification. A pump that holds the bytes of a
\* non-empty read and has yet to append them to the pending buffer, call the
\* parser and send their record (where it may wait for room in the channel) has
\* already written every byte it read to its destination.
C25_ForwardingPrecedesClassification ==
  \A t \in Streams : (pumpPc[t] = "classify" /\ tmp[t] # <<>>) => dst[t] = got[t]

\* the RAW_END record was sent
EndRecordSent == \E i \in 1..Len(Enqueued) : IsEndRecord(Enqueued[i])

\* C26: order of the session-end record. Whenever the RAW_END record has been
\* sent, the child has exited and the context has been cancelled (the pumps have
\* been told to stop).
C26_EndRecordAfterCancel ==
  EndRecordSent => (child = "exited" /\ ctxDone)

\* the awaited length of pump t is none or positive, and the parser is at rest
\* while a length is awaited
C27_Coupled(t) ==
  \/ requiredPayloadLen[t] = -1
  \/ requiredPayloadLen[t] > 0 /\ chParser[t] = ResetParser

\* an iteration of pump t that began with a length awaited left the parser as it
\* was and reported no header error: the parser was not called
C27_ParserNotCalledStep ==
  \A t \in Framed :
    (pumpPc[t] = "classify" /\ pumpPc'[t] = "check" /\ requiredPayloadLen[t] > 0) =>
      /\ chParser'[t] = chParser[t]
      /\ \A i \in 1..Len(NewlyEnqueued) : NewlyEnqueued[i].payloadType = "JSON"

\* C27: awaited length and parser are coupled. In every state of a framed pump
\* the awaited length is -1 or strictly positive; when it is positive the parser
\* is in INITIAL with pos = 0 and an empty accumulator; and the parser is called
\* only in iterations that begin with the awaited length -1.
C27_AwaitedLengthCoupling ==
  /\ [](\A t \in Framed : C27_Coupled(t))
  /\ [][C27_ParserNotCalledStep]_vars

C27_Witness ==
  \E t \in Framed :
    /\ pumpPc[t] = "check"
    /\ awaited[t] = 2
    /\ requiredPayloadLen[t] = 2
    /\ chParser[t] = ResetParser
    /\ buf[t] = <<"a">>

\* a step sends at most one record, and the iteration that sends a record of a
\* framed stream stops there: the parser is left reset with no length awaited,
\* whatever the pending buffer still holds
C28_OneRecordStep ==
  /\ Len(NewlyEnqueued) <= 1
  /\ \A t \in Framed :
       (pumpPc[t] = "classify" /\ pumpPc'[t] = "check" /\ NewlyEnqueued # <<>>) =>
         /\ chParser'[t] = ResetParser
         /\ requiredPayloadLen'[t] = -1
         /\ Len(buf'[t]) < Len(buf[t]) + Len(tmp[t])

\* C28: at most one record per read. Each iteration of a pump sends at most one
\* record and calls the parser at most once, however many headers and messages
\* the pending buffer holds, and the records a pump has sent are never more than
\* the non-empty reads it has made.
C28_OneRecordPerRead ==
  /\ [](\A t \in Streams : Len(RecordsOf(Enqueued, t)) <= nReads[t])
  /\ [][C28_OneRecordStep]_vars

C28_Witness ==
  \E t \in Framed :
    /\ pumpPc[t] = "check"
    /\ got[t] = StreamOf(<<<<"a">>, <<"p">>>>)
    /\ nReads[t] = 1
    /\ ch = <<LogData(t, "JSON", <<"a">>)>>
    /\ buf[t] = Frame(<<"p">>)
    /\ chParser[t] = ResetParser
====
